---- MODULE Spec2Model ----
(***************************************************************************)
(* Model of the RTA camera management backend (itx-nasir/rta-cma).         *)
(*                                                                         *)
(* Four parts share the variables below:                                    *)
(*   - the role / location permission functions of app/models/user.py and  *)
(*     app/core/permissions.py, applied to inputs drawn from bounded sets   *)
(*     (specification SpecPerm, variable check);                             *)
(*   - the create / update / delete endpoints of cameras, locations, NVR    *)
(*     devices and camera actions with their authentication dependencies    *)
(*     (specification Spec, variables users, cameras, locations, nvrs,      *)
(*     actions and last; tokens holds the access tokens issued by login);  *)
(*   - the listing endpoints: the query stages of app/core/filters.py, the  *)
(*     four get_*_with_filters service functions and                        *)
(*     PaginatedResponse.create, applied to tables and query parameters     *)
(*     drawn from bounded sets (specification SpecQuery, variable listing); *)
(*     SpecRepeat repeats a served call over a rescanned table, SpecEntry   *)
(*     adds the service entry points below the endpoints, SpecSnapshot      *)
(*     runs the count and the page statement of a listing beside            *)
(*     concurrent writes;                                                   *)
(*   - the user accounts: login, token expiry and the endpoints of          *)
(*     app/api/auth.py over the users table (specifications SpecAccounts,   *)
(*     SpecProfile and SpecPassword, variables users, tokens and last).     *)
(*                                                                         *)
(* Only the columns the properties speak about are kept in the records:    *)
(* Camera.location_id, Location.location_type, NVRDevice.channel_number    *)
(* and CameraAction.camera_id.                                             *)
(***************************************************************************)
EXTENDS Integers, Sequences, FiniteSets, TLC

VARIABLES users, tokens, cameras, locations, nvrs, actions, last, check, listing

vars == <<users, tokens, cameras, locations, nvrs, actions, last, check, listing>>

store == <<cameras, locations, nvrs, actions>>

(***************************************************************************)
(* Bounds                                                                  *)
(***************************************************************************)
\* highest primary key a table hands out
MaxId == 1
\* location ids given to the permission functions range over 0..MaxLocationId
MaxLocationId == 2
\* longest candidate list given to filter_locations_by_access
MaxLen == 2
\* most rows in the table a listing query reads
MaxRows == 2
\* skip of a listing query ranges over 0..MaxSkip
MaxSkip == 2
\* limit of a listing query ranges over 1..MaxLimit
MaxLimit == 2
\* action_date and the date bounds range over 0..MaxDate
MaxDate == 2

(***************************************************************************)
(* Values                                                                  *)
(***************************************************************************)
\* Python None of an Optional[int] column or parameter
None == -1
\* a field the request body did not set (pydantic exclude_unset)
Unset == -2
\* Python None / unset of an Optional[str] column
NoneStr == "None"
UnsetStr == "Unset"

\* truth value Python gives an Optional[int] in `if x and y`
Truthy(x) == x # None /\ x # 0

ADMINISTRATOR == "administrator"
OPERATOR == "operator"
VIEWER == "viewer"
UserRole == {ADMINISTRATOR, OPERATOR, VIEWER}

LocationIds == 0..MaxLocationId
OptLocationIds == {None} \cup LocationIds

\* the User objects handed to the permission functions
Principals == [role : UserRole, assigned_location_id : OptLocationIds]

RECURSIVE SeqsUpTo(_, _)
SeqsUpTo(S, n) ==
    IF n = 0 THEN {<<>>}
    ELSE LET shorter == SeqsUpTo(S, n - 1)
         IN  shorter \cup {Append(s, x) : s \in {t \in shorter : Len(t) = n - 1}, x \in S}

CandidateLists == SeqsUpTo(LocationIds, MaxLen)

Range(s) == {s[i] : i \in DOMAIN s}

Max(S) == CHOOSE x \in S : \A y \in S : y <= x

(***************************************************************************)
(* app/models/user.py                                                      *)
(***************************************************************************)
is_administrator_noloc(user) == user.role = ADMINISTRATOR /\ user.assigned_location_id = None
is_administrator(user) == user.role = ADMINISTRATOR

is_operator(user) == user.role = OPERATOR

is_viewer(user) == user.role = VIEWER

can_create(user) == user.role \in {ADMINISTRATOR, OPERATOR}

can_edit_any(user) == user.role \in UserRole
can_edit(user) == user.role \in {ADMINISTRATOR, OPERATOR}

can_delete(user) == user.role = ADMINISTRATOR

can_view(user) == TRUE

can_manage_users_op(user) == user.role \in {ADMINISTRATOR, OPERATOR}
can_manage_users(user) == user.role = ADMINISTRATOR

(***************************************************************************)
(* app/core/permissions.py : PermissionChecker                             *)
(***************************************************************************)
can_access_camera(user, camera_location_id) ==
    IF is_administrator(user) THEN TRUE
    ELSE IF is_operator(user)
         THEN IF Truthy(user.assigned_location_id) /\ Truthy(camera_location_id)
              THEN user.assigned_location_id = camera_location_id
              ELSE TRUE
         ELSE is_viewer(user)

can_modify_camera_strict(user, camera_location_id) ==
    IF is_administrator(user) THEN TRUE
    ELSE IF is_operator(user)
         THEN user.assigned_location_id = camera_location_id
         ELSE FALSE
can_modify_camera(user, camera_location_id) ==
    IF is_administrator(user) THEN TRUE
    ELSE IF is_operator(user)
         THEN IF Truthy(user.assigned_location_id) /\ Truthy(camera_location_id)
              THEN user.assigned_location_id = camera_location_id
              ELSE TRUE
         ELSE FALSE

can_delete_camera_as_modify(user, camera_location_id) == can_modify_camera(user, camera_location_id)
can_delete_camera(user, camera_location_id) == is_administrator(user)

filter_locations_by_access(user, location_ids) ==
    IF is_administrator(user) THEN location_ids
    ELSE IF is_operator(user) /\ Truthy(user.assigned_location_id)
         THEN IF user.assigned_location_id \in Range(location_ids)
              THEN <<user.assigned_location_id>>
              ELSE <<>>
         ELSE location_ids

\* require_user_management_permission: TRUE when the dependency returns the
\* user, FALSE when it raises 403
require_user_management_permission(user) == can_manage_users(user)

(***************************************************************************)
(* app/core/auth.py, app/core/permissions.py : request authentication      *)
(***************************************************************************)
UserIds == 1..4

\* what a request carries in its Authorization header
NoCredentials == [kind |-> "none", user_id |-> 0]
InvalidToken == [kind |-> "invalid", user_id |-> 0]
Token(u) == [kind |-> "bearer", user_id |-> u]
Credentials == {NoCredentials, InvalidToken} \cup {Token(u) : u \in UserIds}

\* get_current_user without the is_active check
get_current_user_any_status(cred) ==
    IF cred.kind # "bearer" THEN 0
    ELSE IF cred.user_id \notin DOMAIN users THEN 0
    ELSE cred.user_id

\* AuthService.get_current_user behind HTTPBearer: the id of the user the
\* request is authenticated as, 0 when an HTTPException is raised
get_current_user(cred) ==
    IF cred.kind # "bearer" THEN 0
    ELSE IF cred.user_id \notin DOMAIN users THEN 0
    ELSE IF ~users[cred.user_id].is_active THEN 0
    ELSE cred.user_id

\* require_create_permission deciding by the role written into the token
require_create_permission_by_token_role(cred) ==
    IF get_current_user(cred) = 0 THEN "unauthenticated"
    ELSE IF ~can_create([role |-> cred.role]) THEN "forbidden"
    ELSE "ok"

\* outcome of a permission dependency: "unauthenticated", "forbidden" or "ok"
require_create_permission(cred) ==
    IF get_current_user(cred) = 0 THEN "unauthenticated"
    ELSE IF ~can_create(users[get_current_user(cred)]) THEN "forbidden"
    ELSE "ok"

require_edit_permission(cred) ==
    IF get_current_user(cred) = 0 THEN "unauthenticated"
    ELSE IF ~can_edit(users[get_current_user(cred)]) THEN "forbidden"
    ELSE "ok"

require_delete_permission(cred) ==
    IF get_current_user(cred) = 0 THEN "unauthenticated"
    ELSE IF ~can_delete(users[get_current_user(cred)]) THEN "forbidden"
    ELSE "ok"

(***************************************************************************)
(* Record store                                                            *)
(***************************************************************************)
RecordIds == 1..MaxId

\* primary key the table gives the next inserted row
NextId(table) == IF DOMAIN table = {} THEN 1 ELSE Max(DOMAIN table) + 1

Insert(table, rec) == [i \in DOMAIN table \cup {NextId(table)} |->
                          IF i \in DOMAIN table THEN table[i] ELSE rec]

Remove(table, id) == [i \in DOMAIN table \ {id} |-> table[i]]

\* location ids a camera request body may name
CameraLocationIds == 1..(MaxId + 1)
LocationTypes == {"Room"}
ChannelNumbers == {"CH1"}

\* CameraCreate.dict(): an unset Optional field takes its default None
Default(v) == IF v = Unset THEN None ELSE v
DefaultStr(v) == IF v = UnsetStr THEN NoneStr ELSE v

Request(entity, op, cred, loc, status) ==
    [entity |-> entity, op |-> op, cred |-> cred, loc |-> loc, status |-> status]

\* the last call of a permission function: its name, its arguments (loc for
\* the camera checks, location_ids for the filter) and what it returned
\* (result for the boolean checks, filtered for the filter)
Evaluation(fn, user, loc, location_ids, result, filtered) ==
    [fn |-> fn, user |-> user, loc |-> loc, location_ids |-> location_ids,
     result |-> result, filtered |-> filtered]

\* AuthService.get_password_hash / verify_password: a hash verifies exactly
\* the password it was made from
get_password_hash(password) == <<"bcrypt", password>>
verify_password(plain_password, hashed_password) ==
    hashed_password = get_password_hash(plain_password)

\* the password an account is created with
InitialPassword == "Passw0rd"

\* a row of the users table
Account(username, email, role, assigned_location_id, is_active) ==
    [username |-> username, email |-> email, full_name |-> "Demo User",
     hashed_password |-> get_password_hash(InitialPassword),
     role |-> role, assigned_location_id |-> assigned_location_id,
     is_active |-> is_active]

\* no listing request has been made
NoListing == [entity |-> "none"]

\* the accounts and the empty tables every specification starts from
InitStore ==
    /\ users = [u \in UserIds |->
                  CASE u = 1 -> Account("admin", "admin@rta.gov.ae", ADMINISTRATOR, None, TRUE)
                    [] u = 2 -> Account("operator", "operator@rta.gov.ae", OPERATOR, 1, TRUE)
                    [] u = 3 -> Account("viewer", "viewer@rta.gov.ae", VIEWER, None, TRUE)
                    [] u = 4 -> Account("former", "former@rta.gov.ae", OPERATOR, None, FALSE)]
    /\ tokens = {}
    /\ cameras = <<>>
    /\ locations = <<>>
    /\ nvrs = <<>>
    /\ actions = <<>>
    /\ last = Request("none", "none", NoCredentials, None, "none")
    /\ check = Evaluation("none", [role |-> VIEWER, assigned_location_id |-> None],
                           None, <<>>, FALSE, <<>>)

Init == InitStore /\ listing = NoListing

(***************************************************************************)
(* Evaluation of the permission functions (SpecPerm)                       *)
(***************************************************************************)
Checked(fn, user, loc, result) ==
    /\ check' = Evaluation(fn, user, loc, <<>>, result, <<>>)
    /\ UNCHANGED <<users, tokens, cameras, locations, nvrs, actions, last, listing>>

EvalCanCreate == \E user \in Principals : Checked("can_create", user, None, can_create(user))

EvalCanEdit == \E user \in Principals : Checked("can_edit", user, None, can_edit(user))

EvalCanDelete == \E user \in Principals : Checked("can_delete", user, None, can_delete(user))

EvalCanView == \E user \in Principals : Checked("can_view", user, None, can_view(user))

EvalCanManageUsers ==
    \E user \in Principals : Checked("can_manage_users", user, None, can_manage_users(user))

EvalRequireUserManagement ==
    \E user \in Principals :
        Checked("require_user_management_permission", user, None,
                require_user_management_permission(user))

EvalCanAccessCamera ==
    \E user \in Principals, loc \in OptLocationIds :
        Checked("can_access_camera", user, loc, can_access_camera(user, loc))

EvalCanModifyCamera ==
    \E user \in Principals, loc \in OptLocationIds :
        Checked("can_modify_camera", user, loc, can_modify_camera(user, loc))

EvalCanDeleteCamera ==
    \E user \in Principals, loc \in OptLocationIds :
        Checked("can_delete_camera", user, loc, can_delete_camera(user, loc))

EvalFilterLocations ==
    \E user \in Principals, ids \in CandidateLists :
        /\ check' = Evaluation("filter_locations_by_access", user, None, ids, FALSE,
                                filter_locations_by_access(user, ids))
        /\ UNCHANGED <<users, tokens, cameras, locations, nvrs, actions, last, listing>>

NextPerm ==
    \/ EvalCanCreate
    \/ EvalCanEdit
    \/ EvalCanDelete
    \/ EvalCanView
    \/ EvalCanManageUsers
    \/ EvalRequireUserManagement
    \/ EvalCanAccessCamera
    \/ EvalCanModifyCamera
    \/ EvalCanDeleteCamera
    \/ EvalFilterLocations

SpecPerm == Init /\ [][NextPerm]_vars

(***************************************************************************)
(* Endpoints (Spec).  A handler runs its dependencies first; an endpoint   *)
(* declared without a permission dependency never looks at the credential. *)
(***************************************************************************)
Respond(entity, op, cred, loc, status) == last' = Request(entity, op, cred, loc, status)

\* ---- app/api/camera.py, app/services/camera_service.py ----
create_camera(camera) ==
    /\ cameras' = Insert(cameras, [location_id |-> Default(camera.location_id)])
    /\ UNCHANGED <<locations, nvrs, actions>>

update_camera(camera_id, camera_update) ==
    /\ cameras' = IF camera_update.location_id = Unset THEN cameras
                  ELSE [cameras EXCEPT ![camera_id].location_id = camera_update.location_id]
    /\ UNCHANGED <<locations, nvrs, actions>>

\* Camera.actions is declared cascade="all, delete-orphan"
delete_camera(camera_id) ==
    /\ cameras' = Remove(cameras, camera_id)
    /\ actions' = [a \in {i \in DOMAIN actions : actions[i].camera_id # camera_id} |-> actions[a]]
    /\ UNCHANGED <<locations, nvrs>>

CameraBodies == [location_id : {Unset, None} \cup CameraLocationIds]

ApiCreateCamera ==
    \E cred \in Credentials, camera \in CameraBodies :
        LET auth == require_create_permission(cred)
            loc == Default(camera.location_id)
        IN  /\ IF auth # "ok"
               THEN Respond("camera", "create", cred, loc, auth) /\ UNCHANGED store
               ELSE /\ NextId(cameras) <= MaxId
                    /\ create_camera(camera)
                    /\ Respond("camera", "create", cred, loc, "ok")
            /\ UNCHANGED <<users, tokens, check, listing>>

ApiUpdateCamera ==
    \E cred \in Credentials, camera_id \in RecordIds, camera_update \in CameraBodies :
        LET auth == require_edit_permission(cred)
            loc == IF camera_id \in DOMAIN cameras THEN cameras[camera_id].location_id ELSE None
        IN  /\ IF auth # "ok"
               THEN Respond("camera", "edit", cred, loc, auth) /\ UNCHANGED store
               ELSE IF camera_id \notin DOMAIN cameras
               THEN Respond("camera", "edit", cred, loc, "not_found") /\ UNCHANGED store
               ELSE /\ update_camera(camera_id, camera_update)
                    /\ Respond("camera", "edit", cred, loc, "ok")
            /\ UNCHANGED <<users, tokens, check, listing>>

ApiDeleteCamera ==
    \E cred \in Credentials, camera_id \in RecordIds :
        LET auth == require_delete_permission(cred)
            loc == IF camera_id \in DOMAIN cameras THEN cameras[camera_id].location_id ELSE None
        IN  /\ IF auth # "ok"
               THEN Respond("camera", "delete", cred, loc, auth) /\ UNCHANGED store
               ELSE IF camera_id \notin DOMAIN cameras
               THEN Respond("camera", "delete", cred, loc, "not_found") /\ UNCHANGED store
               ELSE /\ delete_camera(camera_id)
                    /\ Respond("camera", "delete", cred, loc, "ok")
            /\ UNCHANGED <<users, tokens, check, listing>>

\* ---- app/api/location.py, app/services/location_service.py ----
LocationBodies == [location_type : {UnsetStr, NoneStr} \cup LocationTypes]

create_location(location) ==
    /\ locations' = Insert(locations, [location_type |-> DefaultStr(location.location_type)])
    /\ UNCHANGED <<cameras, nvrs, actions>>

update_location(location_id, location_update) ==
    /\ locations' = IF location_update.location_type = UnsetStr THEN locations
                    ELSE [locations EXCEPT ![location_id].location_type = location_update.location_type]
    /\ UNCHANGED <<cameras, nvrs, actions>>

\* Location.cameras is a relationship without delete cascade: the ORM sets
\* location_id of the cameras of the deleted location to NULL
delete_location(location_id) ==
    /\ locations' = Remove(locations, location_id)
    /\ cameras' = [c \in DOMAIN cameras |->
                     IF cameras[c].location_id = location_id
                     THEN [cameras[c] EXCEPT !.location_id = None]
                     ELSE cameras[c]]
    /\ UNCHANGED <<nvrs, actions>>

ApiCreateLocation ==
    \E cred \in Credentials, location \in LocationBodies :
        /\ NextId(locations) <= MaxId
        /\ create_location(location)
        /\ Respond("location", "create", cred, None, "ok")
        /\ UNCHANGED <<users, tokens, check, listing>>

ApiUpdateLocation ==
    \E cred \in Credentials, location_id \in RecordIds, location_update \in LocationBodies :
        /\ IF location_id \notin DOMAIN locations
           THEN Respond("location", "edit", cred, None, "not_found") /\ UNCHANGED store
           ELSE /\ update_location(location_id, location_update)
                /\ Respond("location", "edit", cred, None, "ok")
        /\ UNCHANGED <<users, tokens, check, listing>>

ApiDeleteLocation ==
    \E cred \in Credentials, location_id \in RecordIds :
        /\ IF location_id \notin DOMAIN locations
           THEN Respond("location", "delete", cred, None, "not_found") /\ UNCHANGED store
           ELSE /\ delete_location(location_id)
                /\ Respond("location", "delete", cred, None, "ok")
        /\ UNCHANGED <<users, tokens, check, listing>>

\* ---- app/api/nvr_device.py, app/services/nvr_service.py ----
NvrBodies == [channel_number : {UnsetStr, NoneStr} \cup ChannelNumbers]

create_nvr(nvr) ==
    /\ nvrs' = Insert(nvrs, [channel_number |-> DefaultStr(nvr.channel_number)])
    /\ UNCHANGED <<cameras, locations, actions>>

update_nvr(nvr_id, nvr_update) ==
    /\ nvrs' = IF nvr_update.channel_number = UnsetStr THEN nvrs
               ELSE [nvrs EXCEPT ![nvr_id].channel_number = nvr_update.channel_number]
    /\ UNCHANGED <<cameras, locations, actions>>

delete_nvr(nvr_id) ==
    /\ nvrs' = Remove(nvrs, nvr_id)
    /\ UNCHANGED <<cameras, locations, actions>>

ApiCreateNvr ==
    \E cred \in Credentials, nvr \in NvrBodies :
        /\ NextId(nvrs) <= MaxId
        /\ create_nvr(nvr)
        /\ Respond("nvr", "create", cred, None, "ok")
        /\ UNCHANGED <<users, tokens, check, listing>>

ApiUpdateNvr ==
    \E cred \in Credentials, nvr_id \in RecordIds, nvr_update \in NvrBodies :
        /\ IF nvr_id \notin DOMAIN nvrs
           THEN Respond("nvr", "edit", cred, None, "not_found") /\ UNCHANGED store
           ELSE /\ update_nvr(nvr_id, nvr_update)
                /\ Respond("nvr", "edit", cred, None, "ok")
        /\ UNCHANGED <<users, tokens, check, listing>>

ApiDeleteNvr ==
    \E cred \in Credentials, nvr_id \in RecordIds :
        /\ IF nvr_id \notin DOMAIN nvrs
           THEN Respond("nvr", "delete", cred, None, "not_found") /\ UNCHANGED store
           ELSE /\ delete_nvr(nvr_id)
                /\ Respond("nvr", "delete", cred, None, "ok")
        /\ UNCHANGED <<users, tokens, check, listing>>

\* ---- app/api/camera_action.py, app/services/camera_action_service.py ----
ActionBodies == [camera_id : RecordIds]

create_camera_action(action) ==
    /\ actions' = Insert(actions, [camera_id |-> action.camera_id])
    /\ UNCHANGED <<cameras, locations, nvrs>>

update_camera_action(action_id, action_update) ==
    /\ actions' = [actions EXCEPT ![action_id].camera_id = action_update.camera_id]
    /\ UNCHANGED <<cameras, locations, nvrs>>

delete_camera_action(action_id) ==
    /\ actions' = Remove(actions, action_id)
    /\ UNCHANGED <<cameras, locations, nvrs>>

ApiCreateAction ==
    \E cred \in Credentials, action \in ActionBodies :
        /\ NextId(actions) <= MaxId
        /\ create_camera_action(action)
        /\ Respond("action", "create", cred, None, "ok")
        /\ UNCHANGED <<users, tokens, check, listing>>

ApiUpdateAction ==
    \E cred \in Credentials, action_id \in RecordIds, action_update \in ActionBodies :
        /\ IF action_id \notin DOMAIN actions
           THEN Respond("action", "edit", cred, None, "not_found") /\ UNCHANGED store
           ELSE /\ update_camera_action(action_id, action_update)
                /\ Respond("action", "edit", cred, None, "ok")
        /\ UNCHANGED <<users, tokens, check, listing>>

ApiDeleteAction ==
    \E cred \in Credentials, action_id \in RecordIds :
        /\ IF action_id \notin DOMAIN actions
           THEN Respond("action", "delete", cred, None, "not_found") /\ UNCHANGED store
           ELSE /\ delete_camera_action(action_id)
                /\ Respond("action", "delete", cred, None, "ok")
        /\ UNCHANGED <<users, tokens, check, listing>>

Next ==
    \/ ApiCreateCamera
    \/ ApiUpdateCamera
    \/ ApiDeleteCamera
    \/ ApiCreateLocation
    \/ ApiUpdateLocation
    \/ ApiDeleteLocation
    \/ ApiCreateNvr
    \/ ApiUpdateNvr
    \/ ApiDeleteNvr
    \/ ApiCreateAction
    \/ ApiUpdateAction
    \/ ApiDeleteAction

Spec == Init /\ [][Next]_vars

(***************************************************************************)
(* Listing queries: app/core/filters.py and app/core/pagination.py         *)
(*                                                                         *)
(* A query is the sequence of rows it selects, in the order the database   *)
(* returns them.  Before any ORDER BY that order is the physical order of  *)
(* the table, which SQL leaves open, so the table is given as a sequence   *)
(* drawn from every order; ORDER BY keeps the physical order among rows    *)
(* with equal keys, so every order the database may return is covered.     *)
(* A text value is a sequence of characters.                               *)
(***************************************************************************)
\* NULL of a text column, Python None of an Optional[str] parameter
NullText == <<"NULL">>

\* truth value Python gives an Optional[str] in `if not search_term`
TruthyText(t) == t # NullText /\ t # <<>>

\* truth value Python gives the sort_by string in `if not sort_by`
TruthyStr(s) == s # NoneStr /\ s # ""

Min(a, b) == IF a < b THEN a ELSE b

\* lower(), which ILIKE applies to both sides
Lower(c) == IF c = "A" THEN "a" ELSE IF c = "B" THEN "b" ELSE c
LowerText(t) == [i \in DOMAIN t |-> Lower(t[i])]

\* SQL LIKE: % matches any run of characters, _ matches any one character
RECURSIVE Like(_, _)
Like(s, pattern) ==
    IF pattern = <<>> THEN s = <<>>
    ELSE IF Head(pattern) = "%"
         THEN Like(s, Tail(pattern)) \/ (s # <<>> /\ Like(Tail(s), pattern))
    ELSE /\ s # <<>>
         /\ (Head(pattern) = "_" \/ Head(pattern) = Head(s))
         /\ Like(Tail(s), Tail(pattern))

\* column.ilike(pattern): NULL columns never match
ilike(column, pattern) ==
    column # NullText /\ Like(LowerText(column), LowerText(pattern))

\* offset without limit
apply_pagination_offset_only(query, skip, limit) ==
    SubSeq(query, skip + 1, Len(query))

apply_pagination(query, skip, limit) ==
    SubSeq(query, skip + 1, Min(Len(query), skip + limit))

apply_search(query, search_term, search_fields) ==
    IF ~TruthyText(search_term) \/ search_fields = {} THEN query
    ELSE SelectSeq(query, LAMBDA r : \E field \in search_fields :
                          ilike(r[field], <<"%">> \o search_term \o <<"%">>))

\* the bounds themselves left out
apply_date_range_filter_exclusive(query, date_field, start_date, end_date) ==
    SelectSeq(query, LAMBDA r : /\ (start_date # None => r[date_field] > start_date)
                                /\ (end_date # None => r[date_field] < end_date))

\* and_() of no condition taken as false
apply_date_range_filter_needs_bound(query, date_field, start_date, end_date) ==
    IF start_date = None /\ end_date = None THEN <<>>
    ELSE SelectSeq(query, LAMBDA r :
                      /\ (start_date # None => r[date_field] >= start_date)
                      /\ (end_date # None => r[date_field] <= end_date))

\* a datetime object is always true in `if start_date:`, so only None skips
\* the bound
apply_date_range_filter(query, date_field, start_date, end_date) ==
    SelectSeq(query, LAMBDA r : /\ (start_date # None => r[date_field] >= start_date)
                            /\ (end_date # None => r[date_field] <= end_date))

\* SortOrder of app/core/pagination.py
asc == "asc"
desc == "desc"
SortOrder == {asc, desc}

\* columns compared as numbers; the others are text
IntColumns == {"id", "camera_id", "action_date"}

\* byte order of the characters
Ord(c) == CASE c = "%" -> 37 [] c = "A" -> 65 [] c = "B" -> 66
            [] c = "_" -> 95 [] c = "a" -> 97 [] c = "b" -> 98

RECURSIVE LexLeq(_, _)
LexLeq(a, b) ==
    \/ a = <<>>
    \/ /\ b # <<>>
       /\ \/ Ord(Head(a)) < Ord(Head(b))
          \/ Head(a) = Head(b) /\ LexLeq(Tail(a), Tail(b))

\* a <= b in the order of ORDER BY ... ASC; PostgreSQL sorts NULL as larger
\* than every value
KeyLeq(field, a, b) ==
    IF field \in IntColumns THEN a <= b
    ELSE b = NullText \/ (a # NullText /\ LexLeq(a, b))

\* r may stay in front of s under ORDER BY field asc / desc
InOrder(field, sort_order, r, s) ==
    IF sort_order = desc THEN KeyLeq(field, s[field], r[field])
    ELSE KeyLeq(field, r[field], s[field])

\* r placed behind the rows of the sorted query that may stay in front of it
RECURSIVE Place(_, _, _, _)
Place(r, query, field, sort_order) ==
    IF query = <<>> THEN <<r>>
    ELSE IF InOrder(field, sort_order, Head(query), r)
         THEN <<Head(query)>> \o Place(r, Tail(query), field, sort_order)
    ELSE <<r>> \o query

\* query.order_by(asc(field)) / query.order_by(desc(field))
RECURSIVE order_by(_, _, _)
order_by(query, field, sort_order) ==
    IF query = <<>> THEN <<>>
    ELSE Place(query[Len(query)],
               order_by(SubSeq(query, 1, Len(query) - 1), field, sort_order),
               field, sort_order)

\* an unknown field falls back to the primary key
apply_sorting_unknown_by_id(query, sort_by, sort_order, allowed_sort_fields) ==
    IF ~TruthyStr(sort_by) THEN query
    ELSE IF sort_by \notin allowed_sort_fields THEN order_by(query, "id", asc)
    ELSE order_by(query, sort_by, sort_order)

\* the direction ignored
apply_sorting_always_asc(query, sort_by, sort_order, allowed_sort_fields) ==
    IF ~TruthyStr(sort_by) \/ sort_by \notin allowed_sort_fields THEN query
    ELSE order_by(query, sort_by, asc)

\* allowed_sort_fields is the set of keys; every key names its own column
apply_sorting(query, sort_by, sort_order, allowed_sort_fields) ==
    IF ~TruthyStr(sort_by) \/ sort_by \notin allowed_sort_fields THEN query
    ELSE order_by(query, sort_by, sort_order)

\* the value tested by truth value: 0 skips the filter
apply_filter_by_field_truthy(query, field, value) ==
    IF Truthy(value) THEN SelectSeq(query, LAMBDA r : r[field] = value)
    ELSE query

\* equality filter on an Optional[int] value
apply_filter_by_field(query, field, value) ==
    IF value # None THEN SelectSeq(query, LAMBDA r : r[field] = value)
    ELSE query

\* equality filter on an Optional[str] value
apply_filter_by_text_field(query, field, value) ==
    IF value # NullText THEN SelectSeq(query, LAMBDA r : r[field] = value)
    ELSE query

apply_status_filter(query, status_field, status) ==
    apply_filter_by_text_field(query, status_field, status)

get_total_count(query) == Len(query)

\* has_more still set on the last page
PaginatedResponse_inclusive(items, total, skip, limit) ==
    [items |-> items, total |-> total, skip |-> skip, limit |-> limit,
     has_more |-> skip + Len(items) <= total]

\* PaginatedResponse.create
PaginatedResponse(items, total, skip, limit) ==
    [items |-> items, total |-> total, skip |-> skip, limit |-> limit,
     has_more |-> skip + Len(items) < total]

(***************************************************************************)
(* Listing queries: the service functions                                  *)
(*                                                                         *)
(* db is the table the query reads.  The rows keep the columns the         *)
(* modelled stages touch: Camera id, camera_name, rta_tag, status,         *)
(* location_id; Location id, location_name, location_type; NVRDevice id,   *)
(* nvr_name, channel_number; CameraAction id, camera_id, action_type,      *)
(* notes, action_date.  q holds the keyword arguments of the call.         *)
(***************************************************************************)
get_cameras_with_filters(db, q) ==
    LET searched == IF TruthyText(q.search)
                    THEN apply_search(db, q.search, {"camera_name", "rta_tag"})
                    ELSE db
        by_status == apply_status_filter(searched, "status", q.status)
        by_location == apply_filter_by_field(by_status, "location_id", q.location_id)
        sorted == apply_sorting(by_location, q.sort_by, q.sort_order,
                                {"id", "camera_name", "status", "rta_tag"})
        total == get_total_count(sorted)
        items == apply_pagination(sorted, q.skip, q.limit)
    IN  <<items, total>>

\* the page cut before the rows are sorted
get_locations_paged_then_sorted(db, q) ==
    LET searched == IF TruthyText(q.search)
                    THEN apply_search(db, q.search, {"location_name", "location_type"})
                    ELSE db
        by_type == apply_filter_by_text_field(searched, "location_type", q.location_type)
        total == get_total_count(by_type)
        page == apply_pagination(by_type, q.skip, q.limit)
        items == apply_sorting(page, q.sort_by, q.sort_order,
                               {"id", "location_name", "location_type"})
    IN  <<items, total>>

get_locations_with_filters(db, q) ==
    LET searched == IF TruthyText(q.search)
                    THEN apply_search(db, q.search, {"location_name", "location_type"})
                    ELSE db
        by_type == apply_filter_by_text_field(searched, "location_type", q.location_type)
        sorted == apply_sorting(by_type, q.sort_by, q.sort_order,
                                {"id", "location_name", "location_type"})
        total == get_total_count(sorted)
        items == apply_pagination(sorted, q.skip, q.limit)
    IN  <<items, total>>

get_nvrs_with_filters(db, q) ==
    LET searched == IF TruthyText(q.search)
                    THEN apply_search(db, q.search, {"nvr_name", "channel_number"})
                    ELSE db
        sorted == apply_sorting(searched, q.sort_by, q.sort_order,
                                {"id", "nvr_name", "channel_number"})
        total == get_total_count(sorted)
        items == apply_pagination(sorted, q.skip, q.limit)
    IN  <<items, total>>

\* the page cut before the rows are narrowed
get_camera_actions_paged_then_filtered(db, q) ==
    LET page == apply_pagination(db, q.skip, q.limit)
        by_camera == apply_filter_by_field(page, "camera_id", q.camera_id)
        by_type == apply_filter_by_text_field(by_camera, "action_type", q.action_type)
        by_date == apply_date_range_filter(by_type, "action_date",
                                           q.start_date, q.end_date)
        searched == IF TruthyText(q.search)
                    THEN apply_search(by_date, q.search, {"action_type", "notes"})
                    ELSE by_date
        sort_by == IF ~TruthyStr(q.sort_by) THEN "action_date" ELSE q.sort_by
        items == apply_sorting(searched, sort_by, q.sort_order,
                               {"id", "action_date", "action_type", "camera_id"})
        total == get_total_count(items)
    IN  <<items, total>>

get_camera_actions_with_filters(db, q) ==
    LET by_camera == apply_filter_by_field(db, "camera_id", q.camera_id)
        by_type == apply_filter_by_text_field(by_camera, "action_type", q.action_type)
        by_date == apply_date_range_filter(by_type, "action_date",
                                           q.start_date, q.end_date)
        searched == IF TruthyText(q.search)
                    THEN apply_search(by_date, q.search, {"action_type", "notes"})
                    ELSE by_date
        sort_by == IF ~TruthyStr(q.sort_by) THEN "action_date" ELSE q.sort_by
        sorted == apply_sorting(searched, sort_by, q.sort_order,
                                {"id", "action_date", "action_type", "camera_id"})
        total == get_total_count(sorted)
        items == apply_pagination(sorted, q.skip, q.limit)
    IN  <<items, total>>

(***************************************************************************)
(* Listing queries: the tables and the parameters the calls are given      *)
(***************************************************************************)
Ab == <<"A", "b">>
Underscore == <<"_">>
Percent == <<"%">>

\* search terms: absent, empty, a letter, and the two LIKE wildcards
SearchTerms == {NullText, <<>>, <<"a">>, Underscore, Percent}

\* location_name and nvr_name are unique: the name is a function of the id
NameOfId(id) == CASE id = 1 -> <<"b">> [] id = 2 -> Ab
                  [] id = 3 -> <<"a">> [] OTHER -> Underscore

\* primary keys of a table of k rows in physical order: any order, or the
\* order of insertion
Ids(k, any_order) ==
    IF any_order THEN Permutations(1..k) ELSE {[i \in 1..k |-> i]}

\* tables of at most MaxRows rows whose other columns are drawn from Values
Tables(Values, any_order) ==
    UNION {{[i \in 1..k |-> [id |-> p[i]] @@ s[i]] :
               s \in [1..k -> Values], p \in Ids(k, any_order)} : k \in 0..MaxRows}

\* the unique name column added to each row
Named(db, column) == [i \in DOMAIN db |-> (column :> NameOfId(db[i].id)) @@ db[i]]

\* the call with every optional argument left out
NoFilters ==
    [skip |-> 0, limit |-> MaxLimit, search |-> NullText, status |-> NullText,
     location_id |-> None, location_type |-> NullText, camera_id |-> None,
     action_type |-> NullText, start_date |-> None, end_date |-> None,
     sort_by |-> NoneStr, sort_order |-> asc]

Skips == 0..MaxSkip
Limits == 1..MaxLimit
Dates == 0..MaxDate

\* a listing request that has not been served yet
Call(entity, db, q) ==
    [entity |-> entity, db |-> db, q |-> q, done |-> FALSE,
     status |-> "pending", items |-> <<>>, total |-> 0, has_more |-> FALSE]

\* cameras searched over camera_name and rta_tag
CameraSearchCalls ==
    \E db \in Tables([camera_name : {NullText, Ab, Underscore},
                      rta_tag : {NullText, <<"a">>},
                      status : {<<"A">>}, location_id : {None}], FALSE),
       t \in SearchTerms :
        listing = Call("camera", db, [NoFilters EXCEPT !.search = t])

\* cameras filtered by status and location_id
CameraFilterCalls ==
    \E db \in Tables([camera_name : {Ab}, rta_tag : {NullText},
                      status : {<<"A">>, <<"b">>},
                      location_id : {None, 0, 1}], FALSE),
       st \in {NullText, <<"A">>, <<"b">>}, loc \in {None, 0, 1},
       t \in {NullText, <<"a">>} :
        listing = Call("camera", db, [NoFilters EXCEPT !.status = st,
                                         !.location_id = loc, !.search = t])

\* cameras sorted and paginated
CameraSortCalls ==
    \E db \in Tables([camera_name : {NullText, Ab, Underscore},
                      rta_tag : {NullText}, status : {<<"A">>},
                      location_id : {None}], TRUE),
       sk \in Skips, li \in Limits,
       sb \in {NoneStr, "", "id", "camera_name", "price"}, so \in SortOrder :
        listing = Call("camera", db, [NoFilters EXCEPT !.skip = sk, !.limit = li,
                                         !.sort_by = sb, !.sort_order = so])

LocationCalls ==
    \E db \in Tables([location_type : {NullText, Ab}], TRUE),
       sk \in Skips, li \in Limits,
       sb \in {NoneStr, "id", "location_name", "location_type", "capacity"},
       so \in SortOrder, ty \in {NullText, Ab}, t \in {NullText, <<"a">>} :
        listing = Call("location", Named(db, "location_name"),
                       [NoFilters EXCEPT !.skip = sk, !.limit = li,
                                         !.sort_by = sb, !.sort_order = so,
                                         !.location_type = ty, !.search = t])

NvrCalls ==
    \E db \in Tables([channel_number : {NullText, <<"a">>}], TRUE),
       sk \in Skips, li \in Limits, sb \in {NoneStr, "nvr_name", "vendor"},
       so \in SortOrder, t \in {NullText, <<"b">>, Underscore} :
        listing = Call("nvr", Named(db, "nvr_name"),
                       [NoFilters EXCEPT !.skip = sk, !.limit = li,
                                         !.sort_by = sb, !.sort_order = so,
                                         !.search = t])

ActionCalls ==
    \E db \in Tables([camera_id : {1, 2}, action_type : {Ab},
                      notes : {NullText}, action_date : Dates], FALSE),
       cam \in {None, 1}, sd \in {None, 1}, ed \in {None, 1},
       sb \in {NoneStr, "action_date", "user"}, so \in SortOrder :
        listing = Call("action", db,
                       [NoFilters EXCEPT !.camera_id = cam, !.start_date = sd,
                                         !.end_date = ed, !.sort_by = sb,
                                         !.sort_order = so])

\* camera actions filtered by camera, narrowed by date and search, paginated
ActionSearchCalls ==
    \E db \in Tables([camera_id : {1, 2}, action_type : {Ab},
                      notes : {NullText, <<"b">>}, action_date : {0, MaxDate}],
                     FALSE),
       cam \in {None, 1}, sd \in {None, 1}, sk \in Skips, li \in Limits :
        listing = Call("action", db,
                       [NoFilters EXCEPT !.camera_id = cam, !.start_date = sd,
                                         !.search = <<"b">>, !.skip = sk,
                                         !.limit = li, !.sort_order = desc])

\* the listing requests the endpoints are given
Calls ==
    \/ CameraSearchCalls
    \/ CameraFilterCalls
    \/ CameraSortCalls
    \/ LocationCalls
    \/ NvrCalls
    \/ ActionCalls
    \/ ActionSearchCalls

(***************************************************************************)
(* Listing queries: the endpoints                                          *)
(***************************************************************************)
InitQuery == InitStore /\ Calls

\* le=1000 of the limit query parameter
MAX_PAGE_SIZE == 1000

\* skip: int = Query(0, ge=0), limit: int = Query(100, ge=1, le=1000)
ValidPagination(skip, limit) ==
    skip >= 0 /\ limit >= 1 /\ limit <= MAX_PAGE_SIZE

\* the endpoint calls the service function and wraps what it returns
Serve(result) ==
    LET response == PaginatedResponse(result[1], result[2],
                                      listing.q.skip, listing.q.limit)
    IN  /\ listing' = [listing EXCEPT !.done = TRUE,
                                      !.status = "200",
                                      !.items = response.items,
                                      !.total = response.total,
                                      !.has_more = response.has_more]
        /\ UNCHANGED <<users, tokens, cameras, locations, nvrs, actions, last, check>>

\* FastAPI refuses a request whose skip or limit fails its Query constraint
\* before the endpoint body runs
Reject ==
    /\ listing' = [listing EXCEPT !.done = TRUE, !.status = "422"]
    /\ UNCHANGED <<users, tokens, cameras, locations, nvrs, actions, last, check>>

api_get_cameras ==
    /\ listing.entity = "camera" /\ ~listing.done
    /\ IF ValidPagination(listing.q.skip, listing.q.limit)
       THEN Serve(get_cameras_with_filters(listing.db, listing.q))
       ELSE Reject

api_get_locations ==
    /\ listing.entity = "location" /\ ~listing.done
    /\ IF ValidPagination(listing.q.skip, listing.q.limit)
       THEN Serve(get_locations_with_filters(listing.db, listing.q))
       ELSE Reject

api_get_nvrs ==
    /\ listing.entity = "nvr" /\ ~listing.done
    /\ IF ValidPagination(listing.q.skip, listing.q.limit)
       THEN Serve(get_nvrs_with_filters(listing.db, listing.q))
       ELSE Reject

api_get_all_actions ==
    /\ listing.entity = "action" /\ ~listing.done
    /\ IF ValidPagination(listing.q.skip, listing.q.limit)
       THEN Serve(get_camera_actions_with_filters(listing.db, listing.q))
       ELSE Reject

NextQuery ==
    \/ api_get_cameras
    \/ api_get_locations
    \/ api_get_nvrs
    \/ api_get_all_actions

SpecQuery == InitQuery /\ [][NextQuery]_vars

(***************************************************************************)
(* Properties                                                              *)
(***************************************************************************)
\* the user a request is authenticated as, when there is one
Authenticated(req) == get_current_user(req.cred) # 0
Principal(req) == users[get_current_user(req.cred)]

\* C1: an operator with an assigned location is allowed to create or edit a
\* resource whose location id is present if and only if the two ids are equal,
\* for every pair of ids (0 included), both in
\* PermissionChecker.can_modify_camera and on the camera POST / PUT endpoints.
C1_OperatorScopedToLocation ==
    /\ (/\ check.fn = "can_modify_camera"
        /\ check.user.role = OPERATOR
        /\ check.user.assigned_location_id # None
        /\ check.loc # None)
       => (check.result <=> check.user.assigned_location_id = check.loc)
    /\ (/\ last.entity = "camera"
        /\ last.op \in {"create", "edit"}
        /\ last.status \in {"ok", "forbidden"}
        /\ Authenticated(last)
        /\ Principal(last).role = OPERATOR
        /\ Principal(last).assigned_location_id # None
        /\ last.loc # None)
       => (last.status = "ok" <=> Principal(last).assigned_location_id = last.loc)

\* C2: an operator without an assigned location is allowed to create and edit
\* at every resource location, and an operator with an assigned location is
\* allowed to create and edit a resource whose location id is null.
C2_UnrestrictedOperatorAllowed ==
    /\ (/\ check.fn = "can_modify_camera"
        /\ check.user.role = OPERATOR
        /\ (check.user.assigned_location_id = None \/ check.loc = None))
       => check.result = TRUE
    /\ (check.fn \in {"can_create", "can_edit"} /\ check.user.role = OPERATOR)
       => check.result = TRUE

C2_Witness ==
    /\ check.fn = "can_modify_camera"
    /\ check.user = [role |-> OPERATOR, assigned_location_id |-> None]
    /\ check.loc = 2
    /\ check.result = TRUE

\* C3: view is allowed for every principal of every role, whatever the
\* principal's assigned location and the resource's location
\* (User.can_view and PermissionChecker.can_access_camera).
C3_ViewAlwaysAllowed ==
    check.fn \in {"can_view", "can_access_camera"} => check.result = TRUE

\* C4: an administrator is allowed every action (create, edit, delete, view,
\* manage_users) for every assigned-location / resource-location combination.
C4_AdministratorAllowedAll ==
    (/\ check.user.role = ADMINISTRATOR
     /\ check.fn \in {"can_create", "can_edit", "can_delete", "can_view",
                      "can_manage_users", "require_user_management_permission",
                      "can_access_camera", "can_modify_camera", "can_delete_camera"})
    => check.result = TRUE

C4_Witness ==
    /\ check.fn = "can_delete_camera"
    /\ check.user = [role |-> ADMINISTRATOR, assigned_location_id |-> 1]
    /\ check.loc = 2
    /\ check.result = TRUE

\* C5: delete is denied to every operator and every viewer, for every
\* assigned-location / resource-location combination, matching ones included.
C5_DeleteAdministratorOnly ==
    (/\ check.fn \in {"can_delete", "can_delete_camera"}
     /\ check.user.role \in {OPERATOR, VIEWER})
    => check.result = FALSE

C5_Witness ==
    /\ check.fn = "can_delete_camera"
    /\ check.user = [role |-> OPERATOR, assigned_location_id |-> 1]
    /\ check.loc = 1
    /\ check.result = FALSE

\* C6: a viewer is denied create, edit and delete for every assigned-location
\* / resource-location combination, in the role-level checks and in the
\* location-aware checks.
C6_ViewerReadOnly ==
    (/\ check.user.role = VIEWER
     /\ check.fn \in {"can_create", "can_edit", "can_delete",
                      "can_modify_camera", "can_delete_camera"})
    => check.result = FALSE

C6_Witness ==
    /\ check.fn = "can_edit"
    /\ check.user = [role |-> VIEWER, assigned_location_id |-> 1]
    /\ check.result = FALSE

\* C7: manage_users is allowed if and only if the role is administrator,
\* whatever the assigned location; viewers and operators are always denied.
C7_ManageUsersIffAdministrator ==
    check.fn \in {"can_manage_users", "require_user_management_permission"}
    => (check.result <=> check.user.role = ADMINISTRATOR)

C7_Witness ==
    /\ check.fn = "require_user_management_permission"
    /\ check.user = [role |-> VIEWER, assigned_location_id |-> 2]
    /\ check.result = FALSE

\* the decision table of the access control evaluator, first match wins
DecisionTable(role, action, assigned, loc) ==
    IF role = ADMINISTRATOR THEN TRUE
    ELSE IF role = OPERATOR /\ action \in {"create", "edit"}
         THEN IF assigned = None THEN TRUE
              ELSE IF loc = None THEN TRUE
              ELSE assigned = loc
    ELSE IF role = OPERATOR /\ action = "delete" THEN FALSE
    ELSE IF role = OPERATOR /\ action = "view" THEN TRUE
    ELSE IF role = VIEWER /\ action = "view" THEN TRUE
    ELSE IF role = VIEWER /\ action \in {"create", "edit", "delete"} THEN FALSE
    ELSE role = ADMINISTRATOR

\* the action each permission function decides
ActionOf(fn) ==
    CASE fn \in {"can_create"} -> "create"
      [] fn \in {"can_edit", "can_modify_camera"} -> "edit"
      [] fn \in {"can_delete", "can_delete_camera"} -> "delete"
      [] fn \in {"can_view", "can_access_camera"} -> "view"
      [] OTHER -> "manage_users"

\* C8: the access decision is total and deterministic, and for every (role,
\* action, assigned location, resource location) it equals the outcome of the
\* decision table.
C8_DecisionFollowsTable ==
    check.fn \in {"can_create", "can_edit", "can_delete", "can_view", "can_manage_users",
                  "can_access_camera", "can_modify_camera", "can_delete_camera"}
    => /\ check.result \in BOOLEAN
       /\ check.result = DecisionTable(check.user.role, ActionOf(check.fn),
                                       check.user.assigned_location_id, check.loc)

\* C9: filter_locations_by_access gives an administrator all candidates, an
\* operator with an assigned location exactly that id when it is among the
\* candidates and nothing otherwise, and everyone else all candidates; the
\* result holds only ids of the candidate list.
C9_FilterLocationsByAccess ==
    check.fn = "filter_locations_by_access"
    => /\ Range(check.filtered) \subseteq Range(check.location_ids)
       /\ check.user.role = ADMINISTRATOR => check.filtered = check.location_ids
       /\ (check.user.role = OPERATOR /\ check.user.assigned_location_id # None)
          => check.filtered =
                IF check.user.assigned_location_id \in Range(check.location_ids)
                THEN <<check.user.assigned_location_id>>
                ELSE <<>>
       /\ (check.user.role = OPERATOR /\ check.user.assigned_location_id = None)
          => check.filtered = check.location_ids
       /\ check.user.role = VIEWER => check.filtered = check.location_ids

\* the stored principal of the request may carry out its operation
Permitted(req) ==
    /\ Authenticated(req)
    /\ req.op \in {"create", "edit"} => Principal(req).role \in {ADMINISTRATOR, OPERATOR}
    /\ req.op = "delete" => Principal(req).role = ADMINISTRATOR

\* C10: every create, update and delete on cameras, locations, NVR devices
\* and camera actions is carried out only for an authenticated principal whose
\* role permits it; a request without a credential or from a viewer never
\* changes a stored record.
C10_WritesNeedPermittedPrincipal ==
    [][store' # store => Permitted(last')]_vars

(***************************************************************************)
(* Properties of the listing endpoints                                     *)
(***************************************************************************)
\* a listing request has been answered
Served == listing.entity # "none" /\ listing.done

\* C11: every paginated response holds at most limit items, and its total is
\* at least the number of items on the page.
C11_PageWithinLimit ==
    Served => /\ Len(listing.items) <= listing.q.limit
              /\ listing.total >= Len(listing.items)

\* a full page that is not the whole result
C11_Witness ==
    /\ Served
    /\ Len(listing.items) = listing.q.limit
    /\ listing.total > Len(listing.items)

\* C12: has_more is true exactly when skip plus the number of items on the
\* page is less than total.
C12_HasMore ==
    Served =>
        (listing.has_more <=> listing.q.skip + Len(listing.items) < listing.total)

\* the last page of a result of several pages
C12_Witness ==
    /\ Served
    /\ listing.q.skip > 0
    /\ listing.items # <<>>
    /\ listing.q.skip + Len(listing.items) = listing.total
    /\ ~listing.has_more

\* the service function behind each listing endpoint
list_with_filters(entity, db, q) ==
    CASE entity = "camera" -> get_cameras_with_filters(db, q)
      [] entity = "location" -> get_locations_with_filters(db, q)
      [] entity = "nvr" -> get_nvrs_with_filters(db, q)
      [] entity = "action" -> get_camera_actions_with_filters(db, q)

\* the columns each listing searches
SearchableFields(entity) ==
    CASE entity = "camera" -> {"camera_name", "rta_tag"}
      [] entity = "location" -> {"location_name", "location_type"}
      [] entity = "nvr" -> {"nvr_name", "channel_number"}
      [] entity = "action" -> {"action_type", "notes"}

\* keys of allowed_sort_fields of each listing
AllowedSortFields(entity) ==
    CASE entity = "camera" -> {"id", "camera_name", "status", "rta_tag"}
      [] entity = "location" -> {"id", "location_name", "location_type"}
      [] entity = "nvr" -> {"id", "nvr_name", "channel_number"}
      [] entity = "action" -> {"id", "action_date", "action_type", "camera_id"}

\* the column holds the term as a substring, letter case ignored
Contains(column, term) ==
    /\ column # NullText
    /\ \E i \in 1..(Len(column) - Len(term) + 1) :
          LowerText(SubSeq(column, i, i + Len(term) - 1)) = LowerText(term)

\* the row equals every equality filter that is given
SatisfiesEquality(entity, r, q) ==
    CASE entity = "camera" ->
            /\ q.status # NullText => r.status = q.status
            /\ q.location_id # None => r.location_id = q.location_id
      [] entity = "location" ->
            q.location_type # NullText => r.location_type = q.location_type
      [] entity = "nvr" -> TRUE
      [] entity = "action" ->
            /\ q.camera_id # None => r.camera_id = q.camera_id
            /\ q.action_type # NullText => r.action_type = q.action_type

\* some searchable column of the row holds the term, when a term is given
SatisfiesSearch(entity, r, q) ==
    TruthyText(q.search) =>
        \E field \in SearchableFields(entity) : Contains(r[field], q.search)

\* the date of the row lies within the bounds that are given
SatisfiesDateRange(entity, r, q) ==
    entity = "action" =>
        /\ q.start_date # None => r.action_date >= q.start_date
        /\ q.end_date # None => r.action_date <= q.end_date

\* positions of the rows of the table that satisfy the whole query
Satisfying(entity, db, q) ==
    {i \in DOMAIN db : /\ SatisfiesEquality(entity, db[i], q)
                       /\ SatisfiesSearch(entity, db[i], q)
                       /\ SatisfiesDateRange(entity, db[i], q)}

\* C13: total is the number of records that satisfy the equality filters,
\* the search and the date range, counted before skip and limit are applied:
\* for a fixed table and fixed filters it is the same for every skip, limit
\* and sort.
C13_TotalCountsFiltered ==
    Served =>
        /\ listing.total =
              Cardinality(Satisfying(listing.entity, listing.db, listing.q))
        /\ \A sk \in Skips, li \in Limits, so \in SortOrder,
              sb \in AllowedSortFields(listing.entity) \cup {NoneStr, "price"} :
              list_with_filters(listing.entity, listing.db,
                  [listing.q EXCEPT !.skip = sk, !.limit = li,
                                    !.sort_by = sb, !.sort_order = so])[2]
                = listing.total

\* the filtered, sorted sequence: what the same query returns when the page
\* starts at the first row and is long enough to hold the whole table
Unpaginated(entity, db, q) ==
    list_with_filters(entity, db, [q EXCEPT !.skip = 0, !.limit = Len(db) + 1])[1]

\* C14: the returned page is exactly the records at positions skip ..
\* skip+limit-1 of the filtered, sorted sequence, fewer when the sequence ends
\* earlier and none when skip >= total.
C14_PageIsWindow ==
    Served =>
        LET sequence == Unpaginated(listing.entity, listing.db, listing.q)
        IN  /\ listing.total = Len(sequence)
            /\ Len(listing.items) =
                  IF listing.q.skip >= listing.total THEN 0
                  ELSE Min(listing.q.limit, listing.total - listing.q.skip)
            /\ \A i \in 1..Len(listing.items) :
                  listing.items[i] = sequence[listing.q.skip + i]

\* the first page of locations sorted ascending by name, more rows following
\* in an order that is not the physical one
C14_Witness ==
    /\ Served
    /\ listing.entity = "location"
    /\ listing.q.sort_by = "location_name" /\ listing.q.sort_order = asc
    /\ listing.q.skip = 0
    /\ Len(listing.items) = listing.q.limit
    /\ listing.total > listing.q.limit
    /\ listing.has_more
    /\ listing.items # SubSeq(listing.db, 1, listing.q.limit)

\* the stages a listing is composed of before the page is cut
Stages == {"equality", "dates", "search", "sort"}

\* the stages of the listing named in stages applied to the table, the others
\* left out, and no page cut
Composed(entity, db, q, stages) ==
    LET by_equality ==
            IF "equality" \notin stages THEN db
            ELSE CASE entity = "camera" ->
                        apply_filter_by_field(
                            apply_status_filter(db, "status", q.status),
                            "location_id", q.location_id)
                   [] entity = "location" ->
                        apply_filter_by_text_field(db, "location_type",
                                                   q.location_type)
                   [] entity = "nvr" -> db
                   [] entity = "action" ->
                        apply_filter_by_text_field(
                            apply_filter_by_field(db, "camera_id", q.camera_id),
                            "action_type", q.action_type)
        by_date == IF "dates" \in stages /\ entity = "action"
                   THEN apply_date_range_filter(by_equality, "action_date",
                                                q.start_date, q.end_date)
                   ELSE by_equality
        searched == IF "search" \in stages
                    THEN apply_search(by_date, q.search, SearchableFields(entity))
                    ELSE by_date
        sort_by == IF entity = "action" /\ ~TruthyStr(q.sort_by)
                   THEN "action_date" ELSE q.sort_by
    IN  IF "sort" \in stages
        THEN apply_sorting(searched, sort_by, q.sort_order,
                           AllowedSortFields(entity))
        ELSE searched

\* positions skip .. skip+limit-1 of a sequence
Window(sequence, skip, limit) ==
    SubSeq(sequence, skip + 1, Min(Len(sequence), skip + limit))

\* C15: an equality filter whose value is null never narrows the result, and
\* the non-null equality filters keep exactly the records whose fields equal
\* their values, combined by AND: the listing returns the rows of the listing
\* without equality filters that equal every filter given.
C15_EqualityFilters ==
    Served =>
        LET kept == SelectSeq(
                        Composed(listing.entity, listing.db, listing.q,
                                 Stages \ {"equality"}),
                        LAMBDA r : SatisfiesEquality(listing.entity, r, listing.q))
        IN  /\ listing.total = Len(kept)
            /\ listing.items = Window(kept, listing.q.skip, listing.q.limit)

\* two cameras have the status asked for and one of them is at location 0,
\* the location asked for: the two filters together keep that one
C15_Witness ==
    /\ Served
    /\ listing.entity = "camera"
    /\ listing.q.status # NullText /\ listing.q.location_id = 0
    /\ listing.total = 1 /\ Len(listing.db) = 2
    /\ \A i \in DOMAIN listing.db : listing.db[i].status = listing.q.status
    /\ \E i \in DOMAIN listing.db : listing.db[i].location_id # 0

\* C16: when a search term is present a record is retained if and only if at
\* least one searchable field contains the term as a case-insensitive
\* substring, for every term, % and _ included; when the term is absent the
\* search stage retains every record, records whose text is all null included.
C16_SearchIsSubstring ==
    Served =>
        LET kept == SelectSeq(
                        Composed(listing.entity, listing.db, listing.q,
                                 Stages \ {"search"}),
                        LAMBDA r : SatisfiesSearch(listing.entity, r, listing.q))
        IN  /\ listing.total = Len(kept)
            /\ listing.items = Window(kept, listing.q.skip, listing.q.limit)

\* C17: the camera-action date-range filter retains exactly the records whose
\* action_date is >= start_date when start_date is given and <= end_date when
\* end_date is given, both bounds inclusive, either bound being absent
\* independently.
C17_DateRangeInclusive ==
    (Served /\ listing.entity = "action") =>
        LET kept == SelectSeq(
                        Composed("action", listing.db, listing.q,
                                 Stages \ {"dates"}),
                        LAMBDA r : SatisfiesDateRange("action", r, listing.q))
        IN  /\ listing.total = Len(kept)
            /\ listing.items = Window(kept, listing.q.skip, listing.q.limit)

\* both bounds given and equal: the action dated exactly at the bound is
\* returned, an action dated otherwise is not
C17_Witness ==
    /\ Served
    /\ listing.entity = "action"
    /\ listing.q.start_date # None /\ listing.q.end_date = listing.q.start_date
    /\ listing.q.camera_id = None
    /\ Len(listing.db) = 2
    /\ listing.total = 1
    /\ listing.items[1].action_date = listing.q.start_date

\* C18: a date range with both start and end absent is equivalent to no date
\* filter: the query returns the same page and the same total as the same
\* query with the date-range stage removed.
C18_NoBoundsNoDateFilter ==
    (/\ Served
     /\ listing.entity = "action"
     /\ listing.q.start_date = None
     /\ listing.q.end_date = None) =>
        LET undated == Composed("action", listing.db, listing.q,
                                Stages \ {"dates"})
        IN  /\ listing.total = Len(undated)
            /\ listing.items = Window(undated, listing.q.skip, listing.q.limit)

\* actions of several dates listed with no bound, all of them returned
C18_Witness ==
    /\ Served
    /\ listing.entity = "action"
    /\ listing.q.start_date = None /\ listing.q.end_date = None
    /\ listing.q.camera_id = None
    /\ Len(listing.db) = 2
    /\ listing.db[1].action_date # listing.db[2].action_date
    /\ listing.total = 2

\* the sort field of the call is a non-empty name outside the allow-list
UnknownSortField ==
    /\ TruthyStr(listing.q.sort_by)
    /\ listing.q.sort_by \notin AllowedSortFields(listing.entity)

\* the rows of a sequence, as a set
Rows(sequence) == {sequence[i] : i \in DOMAIN sequence}

\* C19: a sort field name that is not in the allow-list raises no error and
\* applies no ordering; and for fixed filters the set of records matching the
\* query and the total are the same for every sort field (known, unknown or
\* absent) and direction.
C19_UnknownSortIgnored ==
    Served =>
        /\ UnknownSortField =>
              LET unsorted == Composed(listing.entity, listing.db, listing.q,
                                       Stages \ {"sort"})
              IN  /\ listing.total = Len(unsorted)
                  /\ listing.items =
                        Window(unsorted, listing.q.skip, listing.q.limit)
        /\ \A so \in SortOrder,
              sb \in AllowedSortFields(listing.entity) \cup {NoneStr, "", "price"} :
              LET other == [listing.q EXCEPT !.sort_by = sb, !.sort_order = so]
              IN  /\ list_with_filters(listing.entity, listing.db, other)[2]
                        = listing.total
                  /\ Rows(Unpaginated(listing.entity, listing.db, other))
                        = Rows(Unpaginated(listing.entity, listing.db, listing.q))

\* NVR devices listed by an unknown field come back in the physical order of
\* the table, which is not the order of their ids
C19_Witness ==
    /\ Served
    /\ listing.entity = "nvr"
    /\ UnknownSortField
    /\ Len(listing.items) = 2
    /\ listing.items[1].id > listing.items[2].id
    /\ listing.items = listing.db

\* C20: when the sort field is a key of the allowed sort fields, the returned
\* page is ordered by that field in the requested direction: non-decreasing
\* for ascending, non-increasing for descending, for every pair of adjacent
\* records of the page.
C20_PageOrdered ==
    (Served /\ listing.q.sort_by \in AllowedSortFields(listing.entity)) =>
        \A i \in 1..(Len(listing.items) - 1) :
            IF listing.q.sort_order = desc
            THEN KeyLeq(listing.q.sort_by, listing.items[i + 1][listing.q.sort_by],
                        listing.items[i][listing.q.sort_by])
            ELSE KeyLeq(listing.q.sort_by, listing.items[i][listing.q.sort_by],
                        listing.items[i + 1][listing.q.sort_by])

\* two cameras of different names listed by name descending, against their
\* physical order
C20_Witness ==
    /\ Served
    /\ listing.entity = "camera"
    /\ listing.q.sort_by = "camera_name" /\ listing.q.sort_order = desc
    /\ Len(listing.items) = 2
    /\ listing.items[1].camera_name # listing.items[2].camera_name
    /\ listing.items[1] = listing.db[2]

(***************************************************************************)
(* Repeated listing calls                                                  *)
(*                                                                         *)
(* The queries carry no ORDER BY beyond the requested column (none when    *)
(* the field is absent or unknown), so the order of rows with equal keys   *)
(* is whatever the database returns for that call: a repeated call reads   *)
(* the same rows in any physical order.                                    *)
(***************************************************************************)
\* the table as the database scans it on another call
Rescanned(db, p) == [i \in DOMAIN db |-> db[p[i]]]

\* the same request served once more over the same rows
api_get_again ==
    /\ listing.entity # "none" /\ listing.done
    /\ \E p \in Permutations(DOMAIN listing.db) :
          LET db == Rescanned(listing.db, p)
              result == list_with_filters(listing.entity, db, listing.q)
              response == PaginatedResponse(result[1], result[2],
                                            listing.q.skip, listing.q.limit)
          IN  listing' = [listing EXCEPT !.db = db,
                                         !.items = response.items,
                                         !.total = response.total,
                                         !.has_more = response.has_more]
    /\ UNCHANGED <<users, tokens, cameras, locations, nvrs, actions, last, check>>

NextRepeat ==
    \/ NextQuery
    \/ api_get_again

SpecRepeat == InitQuery /\ [][NextRepeat]_vars

\* C21: for a fixed record set and a fixed query, repeated calls return the
\* same page in the same order, also when records tie on the sort field or
\* no sort is applied.
C21_RepeatedCallsAgree ==
    [][(/\ listing.entity # "none" /\ listing.done /\ listing'.done
        /\ listing'.entity = listing.entity
        /\ listing'.q = listing.q
        /\ Rows(listing'.db) = Rows(listing.db))
       => listing'.items = listing.items]_vars

(***************************************************************************)
(* Entry points of a listing: the HTTP endpoints and the service functions *)
(* called directly through the wrappers get_cameras, get_locations and     *)
(* get_nvrs, which forward skip and limit as they are given.               *)
(***************************************************************************)
\* skip and limit inside and outside the accepted range
EntrySkips == {-1, 0, 1}
EntryLimits == {0, 1, MAX_PAGE_SIZE, MAX_PAGE_SIZE + 1}

EntryCalls ==
    \E sk \in EntrySkips, li \in EntryLimits :
        LET q == [NoFilters EXCEPT !.skip = sk, !.limit = li]
        IN  \/ \E db \in Tables([camera_name : {Ab}, rta_tag : {NullText},
                                 status : {<<"A">>}, location_id : {None}], FALSE) :
                  listing = Call("camera", db, q)
            \/ \E db \in Tables([location_type : {NullText}], FALSE) :
                  listing = Call("location", Named(db, "location_name"), q)
            \/ \E db \in Tables([channel_number : {NullText}], FALSE) :
                  listing = Call("nvr", Named(db, "nvr_name"), q)
            \/ \E db \in Tables([camera_id : {1}, action_type : {Ab},
                                 notes : {NullText}, action_date : {0}], FALSE) :
                  listing = Call("action", db, q)

InitEntry == InitStore /\ EntryCalls

\* the wrapper hands skip and limit to the service function; PostgreSQL
\* refuses a negative OFFSET or LIMIT when the query runs, any other value is
\* served
ServiceCall(result) ==
    /\ listing' =
          IF listing.q.skip < 0 \/ listing.q.limit < 0
          THEN [listing EXCEPT !.done = TRUE, !.status = "database error"]
          ELSE [listing EXCEPT !.done = TRUE, !.status = "returned",
                               !.items = result[1], !.total = result[2]]
    /\ UNCHANGED <<users, tokens, cameras, locations, nvrs, actions, last, check>>

get_cameras ==
    /\ listing.entity = "camera" /\ ~listing.done
    /\ ServiceCall(get_cameras_with_filters(listing.db, listing.q))

get_locations ==
    /\ listing.entity = "location" /\ ~listing.done
    /\ ServiceCall(get_locations_with_filters(listing.db, listing.q))

get_nvrs ==
    /\ listing.entity = "nvr" /\ ~listing.done
    /\ ServiceCall(get_nvrs_with_filters(listing.db, listing.q))

NextEntry ==
    \/ NextQuery
    \/ get_cameras
    \/ get_locations
    \/ get_nvrs

SpecEntry == InitEntry /\ [][NextEntry]_vars

\* C22: a listing query with limit outside [1,1000] or skip < 0 fails with an
\* invalid-argument error and returns no page, on every entry point: the HTTP
\* list endpoints and the service-level functions behind the wrappers.
C22_InvalidPaginationRejected ==
    (/\ listing.entity # "none" /\ listing.done
     /\ ~ValidPagination(listing.q.skip, listing.q.limit)) =>
        /\ listing.status \in {"422", "database error"}
        /\ listing.items = <<>>

(***************************************************************************)
(* A listing call beside concurrent writes                                 *)
(*                                                                         *)
(* get_cameras_with_filters issues two statements, query.count() and then  *)
(* query.offset(skip).limit(limit).all().  Each reads the cameras table as *)
(* it is when the statement runs; create_camera and delete_camera of other *)
(* requests commit in between.                                             *)
(***************************************************************************)
\* the cameras table as a query reads it, in primary key order
RECURSIVE CameraRows(_)
CameraRows(table) ==
    IF DOMAIN table = {} THEN <<>>
    ELSE LET id == Max(DOMAIN table)
         IN  Append(CameraRows(Remove(table, id)),
                    [id |-> id, location_id |-> table[id].location_id])

\* the number of rows on the page taken for the count
count_step_of_page(db, q) == Len(get_cameras_with_filters(db, q)[1])

\* total = get_total_count(query)
count_step(db, q) == get_cameras_with_filters(db, q)[2]

\* cameras = query.all() of the paginated query
page_step(db, q) == get_cameras_with_filters(db, q)[1]

\* the listing request arrives and its count statement runs
ListingCounts ==
    /\ listing.entity = "none"
    /\ \E sk \in Skips, li \in Limits :
          LET db == CameraRows(cameras)
              q == [NoFilters EXCEPT !.skip = sk, !.limit = li]
          IN  listing' = [page_db |-> <<>>] @@
                         [Call("camera", db, q) EXCEPT
                             !.status = "counted", !.total = count_step(db, q)]
    /\ UNCHANGED <<users, tokens, cameras, locations, nvrs, actions, last, check>>

\* its page statement runs and the response is built
ListingFetchesPage ==
    /\ listing.entity = "camera" /\ listing.status = "counted"
    /\ LET db == CameraRows(cameras)
           response == PaginatedResponse(page_step(db, listing.q), listing.total,
                                         listing.q.skip, listing.q.limit)
       IN  listing' = [listing EXCEPT !.done = TRUE, !.status = "200",
                                      !.page_db = db,
                                      !.items = response.items,
                                      !.has_more = response.has_more]
    /\ UNCHANGED <<users, tokens, cameras, locations, nvrs, actions, last, check>>

\* another request creates a camera
ConcurrentCreate ==
    /\ NextId(cameras) <= MaxRows
    /\ create_camera([location_id |-> Unset])
    /\ UNCHANGED <<users, tokens, last, check, listing>>

\* another request deletes a camera
ConcurrentDelete ==
    /\ \E camera_id \in DOMAIN cameras : delete_camera(camera_id)
    /\ UNCHANGED <<users, tokens, last, check, listing>>

NextSnapshot ==
    \/ ListingCounts
    \/ ListingFetchesPage
    \/ ConcurrentCreate
    \/ ConcurrentDelete

SpecSnapshot == Init /\ [][NextSnapshot]_vars

\* total is at least the page length, and has_more is true exactly when rows
\* of the table read by the page statement remain after the page
ConsistentPair ==
    /\ listing.total >= Len(listing.items)
    /\ listing.has_more <=>
          (Len(listing.page_db) > listing.q.skip + Len(listing.items))

\* C23: when the count step and the page step of one listing call read the
\* same snapshot, the returned total and page are consistent; an inconsistent
\* (page, total) pair arises only from a create or delete between the two
\* steps, which the listing call does nothing to prevent.
C23_ConsistentUnderSnapshot ==
    (listing.entity = "camera" /\ listing.done /\ ~ConsistentPair)
        => listing.page_db # listing.db

\* a camera created between the count and the page fetch: the page holds a
\* record although total is 0
C23_Witness ==
    /\ listing.entity = "camera" /\ listing.done
    /\ listing.page_db # listing.db
    /\ listing.total < Len(listing.items)

(***************************************************************************)
(* The order of the stages                                                 *)
(***************************************************************************)
\* the stages of the service functions composed in the order equality
\* filters, search, date range, count, sort, pagination
fixed_order(entity, db, q) ==
    LET by_equality == Composed(entity, db, q, {"equality"})
        searched == apply_search(by_equality, q.search, SearchableFields(entity))
        by_date == IF entity = "action"
                   THEN apply_date_range_filter(searched, "action_date",
                                                q.start_date, q.end_date)
                   ELSE searched
        total == get_total_count(by_date)
        sort_by == IF entity = "action" /\ ~TruthyStr(q.sort_by)
                   THEN "action_date" ELSE q.sort_by
        sorted == apply_sorting(by_date, sort_by, q.sort_order,
                                AllowedSortFields(entity))
        items == apply_pagination(sorted, q.skip, q.limit)
    IN  <<items, total>>

NewestFirst(items) ==
    \A i \in 1..(Len(items) - 1) : items[i].action_date >= items[i + 1].action_date

\* C25: camera-action listings are newest first by default: whenever sort_by
\* is absent, or given but not in the allow-list, and sort_order is left at
\* its default (desc), the page is ordered by action_date descending.
C25_DefaultNewestFirst ==
    (/\ Served /\ listing.status = "200" /\ listing.entity = "action"
     /\ listing.q.sort_by \notin AllowedSortFields("action")
     /\ listing.q.sort_order = desc)
        => NewestFirst(listing.items)

(***************************************************************************)
(* User accounts: app/api/auth.py, app/services/user_service.py and        *)
(* AuthService of app/core/auth.py                                         *)
(***************************************************************************)
\* most access tokens that have been issued and have not expired
MaxTokens == 2

\* a field of a request body: left out, or given with a value; zero is the
\* value of the field's type that stands for Python None
NotSet(zero) == [set |-> FALSE, null |-> TRUE, value |-> zero]
Given(v) == [set |-> TRUE, null |-> FALSE, value |-> v]
\* a field a pydantic constructor was passed None for: set, and null
Null(zero) == [set |-> TRUE, null |-> TRUE, value |-> zero]

\* UserUpdate with every field left out
UserUpdate ==
    [email |-> NotSet(NoneStr), full_name |-> NotSet(NoneStr), role |-> NotSet(NoneStr),
     is_active |-> NotSet(FALSE), assigned_location_id |-> NotSet(None)]

\* columns of users declared nullable=False that UserUpdate can name
NotNullColumns == {"email", "full_name", "role"}

\* ids the request paths name: the administrator of the store (the caller's
\* own account), the operator, and one id no account has
PathUserIds == {0, 1, 2}

\* what the user API answered last; access_token is the token a login returned
UserResponse(op, cred, user_id, status, access_token) ==
    [entity |-> "user", op |-> op, cred |-> cred, user_id |-> user_id,
     status |-> status, access_token |-> access_token]

\* AuthService.create_user_token: the payload carries the role the user has
\* when the token is issued
create_user_token(user_id) ==
    [kind |-> "bearer", user_id |-> user_id,
     username |-> users[user_id].username, role |-> users[user_id].role]

\* AuthService.authenticate_user: the id of the account the username or email
\* names when the password verifies, 0 for None
authenticate_user(username, password) ==
    LET found == {u \in DOMAIN users :
                     \/ users[u].username = username
                     \/ users[u].email = username}
    IN  IF found = {} THEN 0
        ELSE LET user == CHOOSE u \in found : TRUE
             IN  IF verify_password(password, users[user].hashed_password)
                 THEN user ELSE 0

\* what a request carries: a token login issued, or nothing
Presented == tokens \cup {NoCredentials}

\* require_administrator: "unauthenticated", "forbidden" or "ok"
require_administrator(cred) ==
    IF get_current_user(cred) = 0 THEN "unauthenticated"
    ELSE IF ~is_administrator(users[get_current_user(cred)]) THEN "forbidden"
    ELSE "ok"

\* the outcome of a service function: its result and the table it leaves
Outcome(status, table) == [status |-> status, users |-> table]

\* update_user: update_data holds the fields that are set; the commit fails
\* when a nullable=False column is given None
update_user(user_id, user_update) ==
    IF user_id \notin DOMAIN users THEN Outcome("not_found", users)
    ELSE IF /\ ~user_update.email.null
            /\ user_update.email.value # users[user_id].email
            /\ \E o \in DOMAIN users \ {user_id} :
                  users[o].email = user_update.email.value
    THEN Outcome("bad_request", users)
    ELSE IF \E f \in NotNullColumns : user_update[f].set /\ user_update[f].null
    THEN Outcome("integrity_error", users)
    ELSE Outcome("ok",
            [users EXCEPT ![user_id] =
                [f \in DOMAIN users[user_id] |->
                    IF f \in DOMAIN user_update /\ user_update[f].set
                    THEN user_update[f].value
                    ELSE users[user_id][f]]])

\* delete_user without the check for the caller's own account
delete_user_any(user_id, current_user) ==
    IF user_id \notin DOMAIN users THEN Outcome("not_found", users)
    ELSE Outcome("ok", [users EXCEPT ![user_id].is_active = FALSE])

\* delete_user: deactivates, never removes the row
delete_user(user_id, current_user) ==
    IF user_id \notin DOMAIN users THEN Outcome("not_found", users)
    ELSE IF current_user = user_id THEN Outcome("bad_request", users)
    ELSE Outcome("ok", [users EXCEPT ![user_id].is_active = FALSE])

activate_user(user_id) ==
    IF user_id \notin DOMAIN users THEN Outcome("not_found", users)
    ELSE Outcome("ok", [users EXCEPT ![user_id].is_active = TRUE])

\* ---- the endpoints of app/api/auth.py ----
Usernames == {"admin", "operator@rta.gov.ae", "former", "nobody"}
Passwords == {InitialPassword, "N3wPassw0rd"}

\* POST /auth/login
login ==
    \E username \in Usernames, password \in Passwords :
        LET user == authenticate_user(username, password)
        IN  /\ IF user = 0
               THEN /\ last' = UserResponse("login", NoCredentials, 0,
                                            "unauthenticated", NoCredentials)
                    /\ tokens' = tokens
               ELSE IF ~users[user].is_active
               THEN /\ last' = UserResponse("login", NoCredentials, user,
                                            "unauthenticated", NoCredentials)
                    /\ tokens' = tokens
               ELSE /\ Cardinality(tokens \cup {create_user_token(user)}) <= MaxTokens
                    /\ last' = UserResponse("login", NoCredentials, user, "ok",
                                            create_user_token(user))
                    /\ tokens' = tokens \cup {create_user_token(user)}
            /\ UNCHANGED <<users, cameras, locations, nvrs, actions, check, listing>>

\* the exp claim of a token passes: verify_token refuses it from then on
TokenExpires ==
    /\ \E t \in tokens : tokens' = tokens \ {t}
    /\ UNCHANGED <<users, cameras, locations, nvrs, actions, last, check, listing>>

\* GET /auth/me
get_my_profile ==
    \E cred \in Presented :
        /\ last' = UserResponse("me", cred, get_current_user(cred),
                                IF get_current_user(cred) = 0
                                THEN "unauthenticated" ELSE "ok", NoCredentials)
        /\ UNCHANGED <<users, tokens, cameras, locations, nvrs, actions, check, listing>>

\* a user-management endpoint behind require_administrator serving result
AdminEndpoint(op, cred, user_id, result) ==
    LET auth == require_administrator(cred)
    IN  /\ IF auth # "ok"
           THEN /\ users' = users
                /\ last' = UserResponse(op, cred, user_id, auth, NoCredentials)
           ELSE /\ users' = result.users
                /\ last' = UserResponse(op, cred, user_id, result.status, NoCredentials)
        /\ UNCHANGED <<tokens, cameras, locations, nvrs, actions, check, listing>>

\* DELETE /auth/users/{user_id}
deactivate_user ==
    \E cred \in Presented, user_id \in PathUserIds :
        AdminEndpoint("deactivate", cred, user_id,
                      delete_user(user_id, get_current_user(cred)))

\* PUT /auth/users/{user_id}/activate
activate_user_endpoint ==
    \E cred \in Presented, user_id \in PathUserIds :
        AdminEndpoint("activate", cred, user_id, activate_user(user_id))

\* PUT /auth/users/{user_id} with a body drawn from Bodies
update_user_by_admin(Bodies) ==
    \E cred \in Presented, user_id \in PathUserIds, user_update \in Bodies :
        AdminEndpoint("update", cred, user_id, update_user(user_id, user_update))

\* bodies that change the role or deactivate
RoleUpdates ==
    {[UserUpdate EXCEPT !.role = r, !.is_active = a] :
        r \in {NotSet(NoneStr), Given(VIEWER)},
        a \in {NotSet(FALSE), Given(FALSE)}}

\* POST /cameras/ and DELETE /cameras/{camera_id} called with an issued token
api_create_camera ==
    \E cred \in Presented :
        LET auth == require_create_permission(cred)
        IN  /\ IF auth # "ok"
               THEN Respond("camera", "create", cred, None, auth) /\ UNCHANGED store
               ELSE /\ NextId(cameras) <= MaxId
                    /\ create_camera([location_id |-> Unset])
                    /\ Respond("camera", "create", cred, None, "ok")
            /\ UNCHANGED <<users, tokens, check, listing>>

api_delete_camera ==
    \E cred \in Presented, camera_id \in RecordIds :
        LET auth == require_delete_permission(cred)
        IN  /\ IF auth # "ok"
               THEN Respond("camera", "delete", cred, None, auth) /\ UNCHANGED store
               ELSE IF camera_id \notin DOMAIN cameras
               THEN Respond("camera", "delete", cred, None, "not_found") /\ UNCHANGED store
               ELSE /\ delete_camera(camera_id)
                    /\ Respond("camera", "delete", cred, None, "ok")
            /\ UNCHANGED <<users, tokens, check, listing>>

NextAccounts ==
    \/ login
    \/ TokenExpires
    \/ get_my_profile
    \/ deactivate_user
    \/ activate_user_endpoint
    \/ update_user_by_admin(RoleUpdates)
    \/ api_create_camera
    \/ api_delete_camera

SpecAccounts == Init /\ [][NextAccounts]_vars

\* the step is the user API answering the request op
Answers(op) == last' # last /\ last'.entity = "user" /\ last'.op = op

\* C27: delete_user is a soft delete that refuses self-deletion: when the
\* target is the calling user the call fails and the users table is
\* unchanged; otherwise the target's is_active becomes false and the row
\* stays in the table; and activate_user on an id sets its is_active back to
\* true, changing nothing else.
C27_SoftDeleteRefusesSelf ==
    [][/\ Answers("deactivate") /\ require_administrator(last'.cred) = "ok" =>
            LET user_id == last'.user_id
                current_user == get_current_user(last'.cred)
            IN  /\ DOMAIN users' = DOMAIN users
                /\ user_id = current_user =>
                      last'.status = "bad_request" /\ users' = users
                /\ user_id \in DOMAIN users /\ user_id # current_user =>
                      /\ last'.status = "ok"
                      /\ users' = [users EXCEPT ![user_id].is_active = FALSE]
       /\ Answers("activate") /\ last'.status = "ok" =>
            users' = [users EXCEPT ![last'.user_id].is_active = TRUE]
      ]_vars

\* the operator account has been deactivated by the administrator and its
\* row is still in the table
C27_Witness ==
    /\ last.entity = "user" /\ last.op = "deactivate" /\ last.status = "ok"
    /\ last.user_id \in DOMAIN users
    /\ ~users[last.user_id].is_active
    /\ users[last.user_id].username = "operator"

\* C29: a token stops working once its user is deactivated or removed: a
\* request carrying a token issued to user u is authenticated as u only in
\* states where u exists and u.is_active is true, whatever logins,
\* deactivations, updates and activations came before; and a login for a
\* user whose is_active is false never returns a token.
C29_TokenNeedsActiveUser ==
    /\ [](\A t \in tokens :
             get_current_user(t) # 0 =>
                 /\ get_current_user(t) = t.user_id
                 /\ t.user_id \in DOMAIN users
                 /\ users[t.user_id].is_active)
    /\ [][/\ (/\ last' # last
              /\ last'.entity \in {"user", "camera"}
              /\ last'.cred.kind = "bearer"
              /\ last'.status # "unauthenticated") =>
                /\ last'.cred.user_id \in DOMAIN users
                /\ users[last'.cred.user_id].is_active
          /\ (Answers("me") /\ last'.status = "ok") =>
                last'.user_id = last'.cred.user_id
          /\ Answers("login") =>
                IF last'.user_id \in DOMAIN users /\ users[last'.user_id].is_active
                THEN last'.access_token.kind = "bearer" =>
                        last'.access_token.user_id = last'.user_id
                ELSE last'.access_token.kind # "bearer" /\ tokens' = tokens
         ]_vars

\* the operator presents the token it was issued before it was deactivated,
\* and is refused
C29_Witness ==
    /\ last.entity = "user" /\ last.op = "me"
    /\ last.cred \in tokens
    /\ last.cred.username = "operator"
    /\ ~users[last.cred.user_id].is_active
    /\ last.status = "unauthenticated"

\* C30: authorization of a request uses the role stored for the user at the
\* time of the request, not the role written into the token at login: the
\* camera create and delete endpoints answer a token of user u exactly as
\* the role u has in the users table allows, also after an administrator
\* changed that role.
C30_StoredRoleDecides ==
    (last.entity = "camera" /\ last.status # "unauthenticated") =>
        LET user == users[last.cred.user_id]
        IN  (last.status = "forbidden") <=>
                ~(IF last.op = "create" THEN can_create(user) ELSE can_delete(user))

\* a token issued to the operator is refused a camera creation after the
\* administrator made the account a viewer
C30_Witness ==
    /\ last.entity = "camera" /\ last.op = "create"
    /\ last.cred \in tokens
    /\ last.cred.role = OPERATOR
    /\ users[last.cred.user_id].role = VIEWER
    /\ last.status = "forbidden"

(***************************************************************************)
(* Self-service profile update                                             *)
(***************************************************************************)
\* the attribute of a body field as Python reads it: None unless given
Attribute(field) == IF field.set /\ ~field.null THEN field ELSE Null(field.value)

\* the whole request body handed on to update_user
restricted_update_whole_body(user_update) == user_update

\* UserUpdate(email=user_update.email, full_name=user_update.full_name): both
\* fields are passed to the constructor and so are set, the others are not
restricted_update(user_update) ==
    [UserUpdate EXCEPT !.email = Attribute(user_update.email),
                       !.full_name = Attribute(user_update.full_name)]

\* PUT /auth/me with a body drawn from Bodies
update_my_profile(Bodies) ==
    \E cred \in Presented, user_update \in Bodies :
        LET current_user == get_current_user(cred)
            result == update_user(current_user, restricted_update(user_update))
        IN  /\ IF current_user = 0
               THEN /\ users' = users
                    /\ last' = [body |-> user_update] @@
                               UserResponse("profile", cred, 0, "unauthenticated",
                                            NoCredentials)
               ELSE /\ users' = result.users
                    /\ last' = [body |-> user_update] @@
                               UserResponse("profile", cred, current_user,
                                            result.status, NoCredentials)
            /\ UNCHANGED <<tokens, cameras, locations, nvrs, actions, check, listing>>

\* bodies naming a new email, another account's email or none, a new full
\* name or none, and a role, activity flag and location or none of them
ProfileUpdates ==
    {[email |-> e, full_name |-> n, role |-> x[1], is_active |-> x[2],
      assigned_location_id |-> x[3]] :
        e \in {NotSet(NoneStr), Given("new@rta.gov.ae"), Given("viewer@rta.gov.ae")},
        n \in {NotSet(NoneStr), Given("New Name")},
        x \in {<<NotSet(NoneStr), NotSet(FALSE), NotSet(None)>>,
               <<Given(ADMINISTRATOR), Given(FALSE), Given(MaxLocationId)>>}}

NextProfile ==
    \/ login
    \/ TokenExpires
    \/ update_my_profile(ProfileUpdates)

SpecProfile == Init /\ [][NextProfile]_vars

\* C26: a self-service profile update changes at most the caller's email and
\* full name: for every request body the caller's role,
\* assigned_location_id, is_active, username and password hash are unchanged
\* afterwards, no other account changes, and a field the body did not supply
\* keeps its previous value.
C26_ProfileUpdateFrame ==
    [][Answers("profile") =>
          /\ DOMAIN users' = DOMAIN users
          /\ \A u \in DOMAIN users :
                /\ users'[u].role = users[u].role
                /\ users'[u].assigned_location_id = users[u].assigned_location_id
                /\ users'[u].is_active = users[u].is_active
                /\ users'[u].username = users[u].username
                /\ users'[u].hashed_password = users[u].hashed_password
                /\ u # last'.user_id => users'[u] = users[u]
                /\ ~last'.body.email.set => users'[u].email = users[u].email
                /\ ~last'.body.full_name.set => users'[u].full_name = users[u].full_name
      ]_vars

\* the operator changed its email and full name with a body that also named
\* a role, an activity flag and a location, and is still the active operator
\* of its location
C26_Witness ==
    /\ last.entity = "user" /\ last.op = "profile" /\ last.status = "ok"
    /\ last.body.role.set /\ last.body.is_active.set
    /\ last.body.assigned_location_id.set
    /\ users[last.user_id].username = "operator"
    /\ users[last.user_id].email = "new@rta.gov.ae"
    /\ users[last.user_id].full_name = "New Name"
    /\ users[last.user_id].role = OPERATOR
    /\ users[last.user_id].is_active
    /\ users[last.user_id].assigned_location_id = 1

(***************************************************************************)
(* Password changes                                                        *)
(***************************************************************************)
UserPasswordUpdate == [current_password : Passwords, new_password : Passwords]

\* update_user_password without the check of the current password
update_user_password_unverified(user_id, password_update, current_user) ==
    IF user_id \notin DOMAIN users THEN Outcome("not_found", users)
    ELSE IF current_user # user_id /\ ~is_administrator(users[current_user])
    THEN Outcome("forbidden", users)
    ELSE Outcome("ok",
            [users EXCEPT ![user_id].hashed_password =
                              get_password_hash(password_update.new_password)])

\* update_user_password; current_user is the id of the authenticated caller
update_user_password(user_id, password_update, current_user) ==
    IF user_id \notin DOMAIN users THEN Outcome("not_found", users)
    ELSE IF current_user # user_id /\ ~is_administrator(users[current_user])
    THEN Outcome("forbidden", users)
    ELSE IF /\ current_user = user_id
            /\ ~verify_password(password_update.current_password,
                                users[user_id].hashed_password)
    THEN Outcome("bad_request", users)
    ELSE Outcome("ok",
            [users EXCEPT ![user_id].hashed_password =
                              get_password_hash(password_update.new_password)])

\* the answer to a password request: who called, for which account, with
\* which body
PasswordResponse(op, cred, current_user, user_id, password_update, status) ==
    [caller |-> current_user, body |-> password_update] @@
    UserResponse(op, cred, user_id, status, NoCredentials)

\* PUT /auth/me/password
update_my_password ==
    \E cred \in Presented, password_update \in UserPasswordUpdate :
        LET current_user == get_current_user(cred)
            result == update_user_password(current_user, password_update,
                                           current_user)
        IN  /\ IF current_user = 0
               THEN /\ users' = users
                    /\ last' = PasswordResponse("my_password", cred, 0, 0,
                                                password_update, "unauthenticated")
               ELSE /\ users' = result.users
                    /\ last' = PasswordResponse("my_password", cred, current_user,
                                                current_user, password_update,
                                                result.status)
            /\ UNCHANGED <<tokens, cameras, locations, nvrs, actions, check, listing>>

\* PUT /auth/users/{user_id}/password
reset_user_password ==
    \E cred \in Presented, user_id \in PathUserIds,
       password_update \in UserPasswordUpdate :
        LET auth == require_administrator(cred)
            current_user == get_current_user(cred)
            result == update_user_password(user_id, password_update, current_user)
        IN  /\ IF auth # "ok"
               THEN /\ users' = users
                    /\ last' = PasswordResponse("reset_password", cred, current_user,
                                                user_id, password_update, auth)
               ELSE /\ users' = result.users
                    /\ last' = PasswordResponse("reset_password", cred, current_user,
                                                user_id, password_update,
                                                result.status)
            /\ UNCHANGED <<tokens, cameras, locations, nvrs, actions, check, listing>>

\* update_user_password called by other code with any authenticated user as
\* current_user
call_update_user_password ==
    \E current_user \in {u \in DOMAIN users : users[u].is_active},
       user_id \in PathUserIds, password_update \in UserPasswordUpdate :
        LET result == update_user_password(user_id, password_update, current_user)
        IN  /\ users' = result.users
            /\ last' = PasswordResponse("update_user_password", NoCredentials,
                                        current_user, user_id, password_update,
                                        result.status)
            /\ UNCHANGED <<tokens, cameras, locations, nvrs, actions, check, listing>>

NextPassword ==
    \/ login
    \/ TokenExpires
    \/ update_my_password
    \/ reset_user_password
    \/ call_update_user_password

SpecPassword == Init /\ [][NextPassword]_vars

\* the step is the answer to a password request
AnswersPassword ==
    /\ last' # last
    /\ last'.entity = "user"
    /\ last'.op \in {"my_password", "reset_password", "update_user_password"}

\* C28: update_user_password changes a stored password hash only when the
\* caller is the target and supplies the target's correct current password,
\* or the caller is an administrator acting on a different user; a
\* non-administrator acting on another user gets a forbidden error, a wrong
\* current password gets an error, and in both cases the stored hash is
\* unchanged.
C28_PasswordChangeRules ==
    [][AnswersPassword =>
          LET caller == last'.caller
              target == last'.user_id
              password_update == last'.body
              \* the request got past the endpoint's dependency, so that
              \* update_user_password ran
              called == /\ caller \in DOMAIN users
                        /\ last'.op = "reset_password" =>
                               is_administrator(users[caller])
          IN  /\ DOMAIN users' = DOMAIN users
              /\ \A u \in DOMAIN users :
                    IF users'[u].hashed_password # users[u].hashed_password
                    THEN /\ u = target /\ last'.status = "ok"
                         /\ \/ /\ caller = u
                               /\ verify_password(password_update.current_password,
                                                  users[u].hashed_password)
                            \/ /\ caller \in DOMAIN users /\ caller # u
                               /\ is_administrator(users[caller])
                         /\ users'[u].hashed_password =
                               get_password_hash(password_update.new_password)
                         /\ [users'[u] EXCEPT !.hashed_password =
                                users[u].hashed_password] = users[u]
                    ELSE users'[u] = users[u]
              /\ (/\ called /\ target \in DOMAIN users
                  /\ caller # target /\ ~is_administrator(users[caller])) =>
                    last'.status = "forbidden" /\ users' = users
              /\ (/\ called /\ caller = target
                  /\ ~verify_password(password_update.current_password,
                                      users[target].hashed_password)) =>
                    last'.status = "bad_request" /\ users' = users
              /\ (/\ called /\ target \in DOMAIN users
                  /\ caller # target /\ is_administrator(users[caller])) =>
                    /\ last'.status = "ok"
                    /\ users'[target].hashed_password =
                          get_password_hash(password_update.new_password)
      ]_vars

\* the administrator gave the operator a new password without knowing the
\* old one
C28_Witness ==
    /\ last.entity = "user" /\ last.op = "reset_password" /\ last.status = "ok"
    /\ last.caller # last.user_id
    /\ ~verify_password(last.body.current_password, get_password_hash(InitialPassword))
    /\ users[last.user_id].username = "operator"
    /\ users[last.user_id].hashed_password # get_password_hash(InitialPassword)
    /\ users[last.user_id].hashed_password = get_password_hash(last.body.new_password)

====
